---- MODULE Spec2Model ----
(***************************************************************************)
(* para-mcp: the MCP gateway in front of the para command line tool        *)
(* (src/para-mcp/src/server.py).                                           *)
(*                                                                         *)
(* A request (tool name + payload) is routed by call_tool to one of the    *)
(* handle_* coroutines, which builds the argument list and hands it to     *)
(* run_para_command; that function runs the external program with the     *)
(* blocking subprocess.run and turns its outcome into a Python value or a  *)
(* ParaError.  call_tool turns every exception into an {"error": ...}      *)
(* document.                                                               *)
(*                                                                         *)
(* Encoding of Python values:                                              *)
(*   - an optional payload field is <<>> (key absent) or <<v>> (key        *)
(*     present with value v);                                              *)
(*   - a text (stdout, stderr) is a sequence of tokens, "ws" standing for  *)
(*     white space, a document token for the text of one JSON document and *)
(*     "junk" for text that is not JSON;                                   *)
(*   - a message built by an f-string is the sequence of its parts;        *)
(*   - a dict is [py |-> "dict", items |-> record], a list [py |-> "list"].*)
(***************************************************************************)
EXTENDS Integers, Sequences, FiniteSets, TLC

\* ------------------------------------------------------------------ bounds

\* number of request slots of the session (calls that can be in flight)
NumCalls == 2
\* longest standard output, in tokens, the external program writes
MaxOut == 2

Calls == 1..NumCalls

\* --------------------------------------------------------- python helpers

Absent == <<>>
Opt(S) == {Absent} \cup {<<v>> : v \in S}
Has(args, f) == Len(args[f]) > 0
\* args.get(f, d)
Get(args, f, d) == IF Has(args, f) THEN args[f][1] ELSE d

Digits == <<"0", "1", "2", "3", "4", "5", "6", "7", "8", "9">>
\* str(n) of a one-digit integer
str(n) == Digits[n + 1]

\* None, as args.get(f) gives for a missing key
None == "<None>"
\* bool(s) of a str or None
Truthy(s) == s # "" /\ s # None

RECURSIVE LStrip(_)
LStrip(t) == IF t # <<>> /\ Head(t) = "ws" THEN LStrip(Tail(t)) ELSE t
RECURSIVE RStrip(_)
RStrip(t) ==
    IF t # <<>> /\ t[Len(t)] = "ws" THEN RStrip(SubSeq(t, 1, Len(t) - 1)) ELSE t
\* str.strip()
Strip(t) == RStrip(LStrip(t))

RECURSIVE SeqsUpTo(_, _)
SeqsUpTo(S, n) ==
    IF n = 0 THEN {<<>>}
    ELSE LET shorter == SeqsUpTo(S, n - 1)
         IN  shorter \cup {Append(s, x) : s \in {t \in shorter : Len(t) = n - 1}, x \in S}

Dict(items) == [py |-> "dict", items |-> items]
PyList == [py |-> "list"]
IsDict(v) == v.py = "dict"
Keys(v) == IF IsDict(v) THEN DOMAIN v.items ELSE {}

\* effects of running a piece of Python: it returns a value, raises, or
\* reaches the subprocess.run call with an argument list
Return(v) == [k |-> "return", value |-> v]
Raise(cls, msg) == [k |-> "raise", cls |-> cls, msg |-> msg]
Run(cmd_args) == [k |-> "run", cmd_args |-> cmd_args]

\* args[f] on a missing key: KeyError(f), whose str() is repr(f)
KeyError(f) == Raise("KeyError", <<"'", f, "'">>)

\* ------------------------------------------------- the external program

PARA_CLI == "para"

DocTokens == {"obj_path", "arr"}
OutTokens == DocTokens \cup {"ws", "junk"}
StdoutTexts == SeqsUpTo(OutTokens, MaxOut)
StderrTexts == {<<>>, <<"ws">>, <<"ws", "boom", "ws">>}
ReturnCodes == {0, 1}

\* the value of each JSON document the program can print
DocValue(tok) ==
    CASE tok = "obj_path"  -> Dict([path |-> "/para/alpha"])
      [] tok = "arr"       -> PyList

\* json.loads: one document, white space allowed around it
json_loads(text) ==
    LET s == Strip(text)
    IN  IF Len(s) = 1 /\ s[1] \in DocTokens
        THEN [ok |-> TRUE, value |-> DocValue(s[1])]
        ELSE [ok |-> FALSE]

\* what subprocess.run meets: the program cannot be started, or it runs and
\* exits with a status and its captured output
Outcomes ==
    [started : {TRUE}, returncode : ReturnCodes,
     stdout : StdoutTexts, stderr : StderrTexts]
LaunchFailure ==
    [started |-> FALSE, returncode |-> 0, stdout |-> <<>>, stderr |-> <<>>]


\* ------------------------------------------------------ run_para_command

\* mutant of cmd: --json is put right after the command word
cmd_json_after_word(cmd_args) ==
    <<PARA_CLI, Head(cmd_args), "--json">> \o Tail(cmd_args)

\* cmd = [PARA_CLI] + args + ["--json"]
cmd(cmd_args) == <<PARA_CLI>> \o cmd_args \o <<"--json">>

\* str(e) of the CalledProcessError subprocess.run raises under check=True
CalledProcessErrorStr(o) ==
    <<"Command returned non-zero exit status ", str(o.returncode)>>

\* mutant of error_msg: the message is taken from e.stdout
error_msg_stdout(o) ==
    IF o.stdout # <<>> THEN Strip(o.stdout) ELSE CalledProcessErrorStr(o)

\* error_msg = e.stderr.strip() if e.stderr else str(e)
error_msg(o) ==
    IF o.stderr # <<>> THEN Strip(o.stderr) ELSE CalledProcessErrorStr(o)

\* mutant of raw_output: the text is stripped before it is handed back
raw_output_stripped(stdout) == Dict([output |-> Strip(stdout), raw |-> TRUE])

\* {"output": result.stdout, "raw": True}
raw_output(stdout) == Dict([output |-> stdout, raw |-> TRUE])

\* mutant of run_para_command: a run that printed nothing is reported as failed
run_para_command_output_required(o, check) ==
    IF ~o.started
    THEN Raise("ParaError", <<"Unexpected error: ", "[Errno 2] No such file or directory">>)
    ELSE IF check /\ o.returncode # 0
    THEN Raise("ParaError", <<"Para command failed: ">> \o error_msg(o))
    ELSE IF Strip(o.stdout) # <<>>
    THEN LET parsed == json_loads(o.stdout)
         IN  IF parsed.ok THEN Return(parsed.value)
             ELSE Return(raw_output(o.stdout))
    ELSE Raise("ParaError", <<"Para command failed: ", "no output">>)

\* run_para_command from the moment subprocess.run comes back with outcome o
run_para_command(o, check) ==
    IF ~o.started
    THEN \* Popen raised (FileNotFoundError, PermissionError): except Exception
         Raise("ParaError", <<"Unexpected error: ", "[Errno 2] No such file or directory">>)
    ELSE IF check /\ o.returncode # 0
    THEN \* except subprocess.CalledProcessError
         Raise("ParaError", <<"Para command failed: ">> \o error_msg(o))
    ELSE IF Strip(o.stdout) # <<>>
    THEN LET parsed == json_loads(o.stdout)
         IN  IF parsed.ok THEN Return(parsed.value)
             ELSE Return(raw_output(o.stdout))
    ELSE Return(Dict([success |-> TRUE, returncode |-> o.returncode]))

\* ----------------------------------------------------------- the handlers

TextContent(v) == [type |-> "text", text |-> v]

\* mutant of TypeNameHandler: the fields are read with args.get
TypeNameHandler_get(word, args) ==
    Run(<<word, Get(args, "type", None), Get(args, "name", None)>>)

\* item_type = args["type"]; name = args["name"]; run [word, item_type, name]
TypeNameHandler(word, args) ==
    IF ~Has(args, "type") THEN KeyError("type")
    ELSE IF ~Has(args, "name") THEN KeyError("name")
    ELSE Run(<<word, args.type[1], args.name[1]>>)

\* mutant of handle_list: a missing type is taken to be "project"
handle_list_default_project(args) ==
    LET type_filter == Get(args, "type", "project")
    IN  IF type_filter = "all" THEN Run(<<"list">>)
        ELSE Run(<<"list", type_filter>>)

handle_list(args) ==
    LET type_filter == Get(args, "type", "all")
    IN  IF type_filter = "all" THEN Run(<<"list">>)
        ELSE Run(<<"list", type_filter>>)

handle_read(args) == TypeNameHandler("read", args)

handle_headings(args) == TypeNameHandler("headings", args)

handle_search(args) ==
    IF ~Has(args, "scope") THEN KeyError("scope")
    ELSE IF ~Has(args, "query") THEN KeyError("query")
    ELSE
      LET scope == args.scope[1]
          query == args.query[1]
          context == Get(args, "context", 2)
          case_sensitive == Get(args, "caseSensitive", FALSE)
          name == Get(args, "name", None)
          flags == (IF context # 2 THEN <<"-C", str(context)>> ELSE <<>>)
                   \o (IF case_sensitive THEN <<"--case-sensitive">> ELSE <<>>)
      IN  IF scope \in {"project", "area"}
          THEN IF ~Truthy(name)
               THEN Return(<<TextContent(Dict(
                        [error |-> <<"'name' is required when scope is '", scope, "'">>]))>>)
               ELSE Run(<<"search", scope, name, query>> \o flags)
          ELSE Run(<<"search", scope, query>> \o flags)

\* mutant of handle_agenda: area is looked at before project
handle_agenda_area_first(args) ==
    LET days == Get(args, "days", 7)
        project == Get(args, "project", None)
        area == Get(args, "area", None)
        scope == Get(args, "scope", "all")
        cmd_args == <<"agenda", "--days", str(days)>>
    IN  IF Truthy(area) THEN Run(cmd_args \o <<"--area", area>>)
        ELSE IF Truthy(project) THEN Run(cmd_args \o <<"--project", project>>)
        ELSE Run(cmd_args \o <<"--scope", scope>>)

handle_agenda(args) ==
    LET days == Get(args, "days", 7)
        project == Get(args, "project", None)
        area == Get(args, "area", None)
        scope == Get(args, "scope", "all")
        cmd_args == <<"agenda", "--days", str(days)>>
    IN  IF Truthy(project) THEN Run(cmd_args \o <<"--project", project>>)
        ELSE IF Truthy(area) THEN Run(cmd_args \o <<"--area", area>>)
        ELSE Run(cmd_args \o <<"--scope", scope>>)

handle_environment(args) == Run(<<"environment">>)

handle_version(args) == Run(<<"version">>)

handle_ai_overview(args) == Run(<<"ai-overview">>)

handle_directory(args) == TypeNameHandler("directory", args)

\* mutant of handle_path: the name is not checked before the program is run
handle_path_unchecked(args) ==
    IF ~Has(args, "location") THEN KeyError("location")
    ELSE LET location == args.location[1]
         IN  IF location \in {"project", "area"}
             THEN Run(<<"path", location, Get(args, "name", None)>>)
             ELSE Run(<<"path", location>>)

handle_path(args) ==
    IF ~Has(args, "location") THEN KeyError("location")
    ELSE LET location == args.location[1]
         IN  IF location \in {"project", "area"}
             THEN IF ~Has(args, "name")
                  THEN Raise("ParaError", <<"Parameter 'name' is required when location is '",
                                            location, "'">>)
                  ELSE Run(<<"path", location, args.name[1]>>)
             ELSE Run(<<"path", location>>)

handle_create(args) == TypeNameHandler("create", args)

handle_archive(args) == TypeNameHandler("archive", args)

handle_delete(args) == TypeNameHandler("delete", args)

handle_open(args) == TypeNameHandler("directory", args)

handle_reveal(args) == TypeNameHandler("directory", args)

OpenNote == "In server context, this returns the path. Use a client to actually open the file."
RevealNote == "In server context, this returns the path. Use a client to actually reveal the folder."

\* handle_open after run_para_command has returned result
handle_open_result(result) ==
    IF IsDict(result) /\ "path" \in Keys(result)
    THEN Dict([k \in Keys(result) \cup {"journalPath", "note"} |->
               IF k = "journalPath" THEN <<result.items.path, "/journal.org">>
               ELSE IF k = "note" THEN OpenNote
               ELSE result.items[k]])
    ELSE result

\* handle_reveal after run_para_command has returned result
handle_reveal_result(result) ==
    IF IsDict(result)
    THEN Dict([k \in Keys(result) \cup {"note"} |->
               IF k = "note" THEN RevealNote ELSE result.items[k]])
    ELSE result

\* the rest of a handler once run_para_command has returned result:
\* return [TextContent(type="text", text=json.dumps(result, indent=2))]
handler_result(name, result) ==
    <<TextContent(CASE name = "para_open"   -> handle_open_result(result)
                    [] name = "para_reveal" -> handle_reveal_result(result)
                    [] OTHER                -> result)>>


\* ---------------------------------------------------------------- call_tool

RegisteredTools ==
    {"para_list", "para_read", "para_headings", "para_search", "para_agenda",
     "para_environment", "para_version", "para_ai_overview", "para_directory",
     "para_path", "para_create", "para_archive", "para_delete", "para_open",
     "para_reveal"}

\* mutant of unknown_tool: the name is passed on to the program as a command
unknown_tool_passed_on(name) == Run(<<name>>)

\* else: raise ValueError(f"Unknown tool: {name}")
unknown_tool(name) == Raise("ValueError", <<"Unknown tool: ", name>>)

\* the if/elif chain of call_tool
route(name, args) ==
    CASE name = "para_list"        -> handle_list(args)
      [] name = "para_read"        -> handle_read(args)
      [] name = "para_headings"    -> handle_headings(args)
      [] name = "para_search"      -> handle_search(args)
      [] name = "para_agenda"      -> handle_agenda(args)
      [] name = "para_environment" -> handle_environment(args)
      [] name = "para_version"     -> handle_version(args)
      [] name = "para_ai_overview" -> handle_ai_overview(args)
      [] name = "para_directory"   -> handle_directory(args)
      [] name = "para_path"        -> handle_path(args)
      [] name = "para_create"      -> handle_create(args)
      [] name = "para_archive"     -> handle_archive(args)
      [] name = "para_delete"      -> handle_delete(args)
      [] name = "para_open"        -> handle_open(args)
      [] name = "para_reveal"      -> handle_reveal(args)
      [] OTHER                     -> unknown_tool(name)

\* the classes `except Exception` catches
ExceptionClasses == {"ParaError", "KeyError", "ValueError", "TypeError", "OSError"}

\* mutant of call_tool_except: only ParaError is caught
call_tool_except_narrow(eff) ==
    IF eff.k = "return" THEN eff
    ELSE IF eff.cls = "ParaError"
    THEN Return(<<TextContent(Dict([error |-> eff.msg]))>>)
    ELSE eff

\* the except clauses of call_tool, applied to what its try block did
call_tool_except(eff) ==
    IF eff.k = "return" THEN eff
    ELSE IF eff.cls = "ParaError"
    THEN Return(<<TextContent(Dict([error |-> eff.msg]))>>)
    ELSE IF eff.cls \in ExceptionClasses
    THEN Return(<<TextContent(Dict([error |-> <<"Internal error: ">> \o eff.msg]))>>)
    ELSE eff

\* a handler from the return of subprocess.run (outcome o) to the end of call_tool
call_tool_resume(name, o) ==
    LET ran == run_para_command(o, TRUE)
    IN  call_tool_except(IF ran.k = "return"
                         THEN Return(handler_result(name, ran.value))
                         ELSE ran)

\* ------------------------------------------------------------ the requests

UnknownTools == {"para_rename"}
ToolNames == RegisteredTools \cup UnknownTools

TypeValues == {"project", "area", "bogus"}
NameValues == {"alpha"}
TypeNamePayloads == [type : Opt(TypeValues), name : Opt(NameValues)]

Payloads(name) ==
    CASE name = "para_list" -> [type : Opt(TypeValues \cup {"all"})]
      [] name = "para_search" ->
            [scope : Opt({"project", "area", "all", "bogus"}), name : Opt({"", "alpha"}),
             query : Opt({"todo"}), context : Opt({2, 5}), caseSensitive : Opt(BOOLEAN)]
      [] name = "para_agenda" ->
            [days : Opt({7, 1}), project : Opt({"", "alpha"}), area : Opt({"", "beta"}),
             scope : Opt({"all", "projects"})]
      [] name = "para_path" ->
            [location : Opt({"home", "project", "area", "bogus"}), name : Opt(NameValues)]
      [] name \in {"para_environment", "para_version", "para_ai_overview"} ->
            [name : Opt({"alpha"})]
      [] OTHER -> TypeNamePayloads

\* ------------------------------------------------------------------- state

VARIABLES
    pc,        \* per call: "idle", "pending", "waiting", "returning", "crashed"
    req,       \* per call: <<>> or <<[name, args]>>, the request call_tool was given
    argv,      \* per call: the cmd list handed to subprocess.run, <<>> before that
    launches,  \* per call: how many times subprocess.run was called
    proc,      \* per call: "none", "running", "hung", "exited", "failed"
    outcome,   \* per call: <<>> or <<o>>, what subprocess.run came back with
    result,    \* per call: what call_tool returned, <<>> before that
    loop       \* the call whose coroutine holds the event loop's thread, or 0:
               \* a handler never awaits anything that suspends it, and
               \* subprocess.run blocks the thread, so a call keeps the thread
               \* from its dispatch to the writing of its response

vars == <<pc, req, argv, launches, proc, outcome, result, loop>>

Init ==
    /\ pc = [c \in Calls |-> "idle"]
    /\ req = [c \in Calls |-> <<>>]
    /\ argv = [c \in Calls |-> <<>>]
    /\ launches = [c \in Calls |-> 0]
    /\ proc = [c \in Calls |-> "none"]
    /\ outcome = [c \in Calls |-> <<>>]
    /\ result = [c \in Calls |-> <<>>]
    /\ loop = 0

\* A client sends a tools/call request; it waits on the transport until the
\* event loop gets to it.
Send(c) ==
    /\ pc[c] = "idle"
    /\ pc' = [pc EXCEPT ![c] = "pending"]
    /\ UNCHANGED <<req, argv, launches, proc, outcome, result, loop>>

\* mutant of Settle: a call that ended in an error is put back to be run again
Settle_retry(c, fin) ==
    IF fin.k = "return" /\ "error" \notin Keys(fin.value[1].text)
    THEN /\ pc' = [pc EXCEPT ![c] = "returning"]
         /\ result' = [result EXCEPT ![c] = fin.value]
         /\ loop' = c
    ELSE /\ pc' = [pc EXCEPT ![c] = "pending"]
         /\ result' = result
         /\ loop' = 0

\* call_tool ends: it returns its result, or an exception leaves it
Settle(c, fin) ==
    IF fin.k = "return"
    THEN /\ pc' = [pc EXCEPT ![c] = "returning"]
         /\ result' = [result EXCEPT ![c] = fin.value]
         /\ loop' = c
    ELSE /\ pc' = [pc EXCEPT ![c] = "crashed"]
         /\ result' = result
         /\ loop' = 0

\* The event loop runs call_tool(name, arguments) for a pending request, up to
\* the point where it returns without running the program or where
\* subprocess.run has started the program (or failed to start it).
call_tool(c) ==
    /\ loop = 0
    /\ pc[c] = "pending"
    /\ \E name \in ToolNames : \E args \in Payloads(name) :
         LET eff == route(name, args)
         IN  /\ req' = [req EXCEPT ![c] = <<[name |-> name, args |-> args]>>]
             /\ IF eff.k = "run"
                THEN /\ argv' = [argv EXCEPT ![c] = cmd(eff.cmd_args)]
                     /\ launches' = [launches EXCEPT ![c] = @ + 1]
                     /\ \E started \in BOOLEAN :
                          IF started
                          THEN /\ pc' = [pc EXCEPT ![c] = "waiting"]
                               /\ proc' = [proc EXCEPT ![c] = "running"]
                               /\ loop' = c
                               /\ UNCHANGED <<outcome, result>>
                          ELSE /\ proc' = [proc EXCEPT ![c] = "failed"]
                               /\ outcome' = [outcome EXCEPT ![c] = <<LaunchFailure>>]
                               /\ Settle(c, call_tool_resume(name, LaunchFailure))
                ELSE /\ Settle(c, call_tool_except(eff))
                     /\ UNCHANGED <<argv, launches, proc, outcome>>

\* The external program exits and the blocked subprocess.run returns; the
\* handler and call_tool run to their end.
RunReturns(c) ==
    /\ pc[c] = "waiting"
    /\ proc[c] = "running"
    /\ \E o \in Outcomes :
         /\ outcome' = [outcome EXCEPT ![c] = <<o>>]
         /\ proc' = [proc EXCEPT ![c] = "exited"]
         /\ Settle(c, call_tool_resume(req[c][1].name, o))
    /\ UNCHANGED <<req, argv, launches>>

\* The external program is one that never exits.
ProcHang(c) ==
    /\ pc[c] = "waiting"
    /\ proc[c] = "running"
    /\ proc' = [proc EXCEPT ![c] = "hung"]
    /\ UNCHANGED <<pc, req, argv, launches, outcome, result, loop>>

\* The result of call_tool is written to the transport and the request is over.
Respond(c) ==
    /\ pc[c] = "returning"
    /\ pc' = [pc EXCEPT ![c] = "idle"]
    /\ req' = [req EXCEPT ![c] = <<>>]
    /\ argv' = [argv EXCEPT ![c] = <<>>]
    /\ launches' = [launches EXCEPT ![c] = 0]
    /\ proc' = [proc EXCEPT ![c] = "none"]
    /\ outcome' = [outcome EXCEPT ![c] = <<>>]
    /\ result' = [result EXCEPT ![c] = <<>>]
    /\ loop' = 0

Next ==
    \E c \in Calls :
        \/ Send(c)
        \/ call_tool(c)
        \/ RunReturns(c)
        \/ ProcHang(c)
        \/ Respond(c)

Spec == Init /\ [][Next]_vars

\* The event loop takes every step it can take; the external program owes
\* nothing (ProcHang), but one that has not hung does exit.
FairSpec ==
    /\ Spec
    /\ \A c \in Calls : WF_vars(call_tool(c)) /\ WF_vars(RunReturns(c)) /\ WF_vars(Respond(c))


\* --------------------------------------------------- the declared schemas

\* "required" of each tool's inputSchema
Required(name) ==
    CASE name \in {"para_read", "para_headings", "para_directory", "para_create",
                   "para_archive", "para_delete", "para_open", "para_reveal"}
              -> {"type", "name"}
      [] name = "para_search" -> {"scope", "query"}
      [] name = "para_path"   -> {"location"}
      [] OTHER                -> {}

\* the fields of each tool's inputSchema that declare an "enum"
EnumFields(name) ==
    CASE name \in {"para_list", "para_read", "para_headings", "para_directory",
                   "para_create", "para_archive", "para_delete", "para_open",
                   "para_reveal"} -> {"type"}
      [] name \in {"para_search", "para_agenda"} -> {"scope"}
      [] name = "para_path" -> {"location"}
      [] OTHER -> {}

\* the "enum" of field f of tool name
Enum(name, f) ==
    CASE name = "para_list"   -> {"project", "area", "all"}
      [] name = "para_search" ->
            {"project", "area", "projects", "areas", "resources", "archive", "all"}
      [] name = "para_agenda" -> {"projects", "areas", "all"}
      [] name = "para_path"   -> {"home", "resources", "archive", "project", "area"}
      [] OTHER                -> {"project", "area"}

\* ------------------------------------------------- vocabulary of the claims

Range(s) == {s[i] : i \in 1..Len(s)}

\* call_tool has been entered for the request of slot c
Handled(c) == pc[c] \in {"waiting", "returning", "crashed"}
ToolOf(c) == req[c][1].name
ArgsOf(c) == req[c][1].args
Returned(c) == pc[c] = "returning"
\* the document call_tool returned
Doc(c) == result[c][1].text
IsErrorDoc(d) == IsDict(d) /\ "error" \in Keys(d)
IsSuccessDoc(d) == ~IsDict(d) \/ Keys(d) \ {"error"} # {}
ErrorResult(c) == Returned(c) /\ Len(result[c]) = 1 /\ IsErrorDoc(Doc(c))
Message(c) == Doc(c).items.error
NoLaunch(c) == launches[c] = 0 /\ proc[c] = "none" /\ argv[c] = <<>>

\* the error kinds, as the message tells them apart
MissingFieldMsg(m, f) ==
    \/ m = <<"Internal error: ", "'", f, "'">>
    \/ /\ f = "name"
       /\ Len(m) = 3
       /\ m[1] \in {"'name' is required when scope is '",
                    "Parameter 'name' is required when location is '"}
ExternalToolErrorMsg(m) == m[1] = "Para command failed: "
UnknownToolMsg(m, name) == m = <<"Internal error: ", "Unknown tool: ", name>>

MissingRequired(c) == {f \in Required(ToolOf(c)) : ~Has(ArgsOf(c), f)}

\* C1: a registered tool called without one of its required fields returns an
\* error naming a missing required field (MissingField), not an
\* ExternalToolError, and runs no external process.
C1_MissingRequiredField ==
    \A c \in Calls :
        (Handled(c) /\ ToolOf(c) \in RegisteredTools /\ MissingRequired(c) # {})
        => /\ ErrorResult(c)
           /\ \E f \in MissingRequired(c) : MissingFieldMsg(Message(c), f)
           /\ ~ExternalToolErrorMsg(Message(c))
           /\ NoLaunch(c)

C1_Witness ==
    \E c \in Calls :
        /\ Returned(c) /\ ToolOf(c) = "para_read"
        /\ Has(ArgsOf(c), "type") /\ ~Has(ArgsOf(c), "name")
        /\ ErrorResult(c) /\ MissingFieldMsg(Message(c), "name")

\* the modes in which "name" is required
NameRequiredMode(c) ==
    \/ /\ ToolOf(c) = "para_search"
       /\ Has(ArgsOf(c), "scope") /\ ArgsOf(c).scope[1] \in {"project", "area"}
    \/ /\ ToolOf(c) = "para_path"
       /\ Has(ArgsOf(c), "location") /\ ArgsOf(c).location[1] \in {"project", "area"}

\* C2: search with scope project/area, or path with location project/area,
\* and no name field: the call returns a MissingField error and no external
\* process is launched at any point of its handling.
C2_NameRequiredInMode ==
    \A c \in Calls :
        (Handled(c) /\ NameRequiredMode(c) /\ ~Has(ArgsOf(c), "name"))
        => /\ ErrorResult(c)
           /\ \E f \in {"name", "query"} : MissingFieldMsg(Message(c), f)
           /\ NoLaunch(c)

C2_Witness ==
    \E c \in Calls :
        /\ Returned(c) /\ ToolOf(c) = "para_search" /\ NameRequiredMode(c)
        /\ Has(ArgsOf(c), "query") /\ ~Has(ArgsOf(c), "name")
        /\ ErrorResult(c) /\ MissingFieldMsg(Message(c), "name") /\ NoLaunch(c)


\* C3: a call whose external process never exits still ends: it returns an
\* error (Timeout) and its process is then no longer running.
C3_TimeoutReturns ==
    \A c \in Calls :
        (proc[c] = "hung") ~> (ErrorResult(c) /\ proc[c] \notin {"running", "hung"})

\* C4: while call a waits for its external process, another pending call b
\* can be dispatched.
C4_WaitDoesNotBlock ==
    \A a, b \in Calls :
        (a # b /\ pc[a] = "waiting" /\ pc[b] = "pending") => ENABLED call_tool(b)

\* C5: call_tool always ends by returning exactly one document, which is an
\* error object with a message or a success value and not both; no exception
\* leaves call_tool.
C5_ExactlyOneResult ==
    \A c \in Calls :
        /\ pc[c] # "crashed"
        /\ ~Returned(c) => result[c] = <<>>
        /\ Returned(c) =>
              /\ Len(result[c]) = 1
              /\ result[c][1].type = "text"
              /\ IsErrorDoc(Doc(c)) # IsSuccessDoc(Doc(c))
              /\ IsErrorDoc(Doc(c)) => Len(Message(c)) >= 1

C5_Witness ==
    \E c \in Calls :
        /\ Returned(c) /\ ToolOf(c) = "para_read" /\ ~Has(ArgsOf(c), "type")
        /\ IsErrorDoc(Doc(c)) /\ ~IsSuccessDoc(Doc(c))

\* the vector handle_agenda builds for a payload
AgendaVector(args) == cmd(handle_agenda(args).cmd_args)
BothSupplied(c) ==
    /\ pc[c] = "waiting" /\ ToolOf(c) = "para_agenda"
    /\ Has(ArgsOf(c), "project") /\ Has(ArgsOf(c), "area")
SameAsProjectOnly(c) ==
    /\ argv[c] = AgendaVector([ArgsOf(c) EXCEPT !.area = Absent])
    /\ "--area" \notin Range(argv[c]) /\ "--scope" \notin Range(argv[c])
    /\ ArgsOf(c).area[1] \notin Range(argv[c])
    /\ Get(ArgsOf(c), "scope", "all") \notin Range(argv[c])

\* C6 as stated: an agenda payload with both project and area gives the
\* vector of the payload with project alone, without the area and the scope.
C6_Original ==
    \A c \in Calls : BothSupplied(c) => SameAsProjectOnly(c)

\* C6 amended: an agenda payload with a non-empty project and an area gives the
\* vector of the payload with project alone, without the area and the scope.
C6_ProjectPrecedence ==
    \A c \in Calls :
        (BothSupplied(c) /\ ArgsOf(c).project[1] # "") => SameAsProjectOnly(c)

C6_Witness ==
    \E c \in Calls :
        /\ BothSupplied(c)
        /\ ArgsOf(c).project[1] = "alpha" /\ ArgsOf(c).area[1] = "beta"
        /\ Has(ArgsOf(c), "scope")
        /\ argv[c] = <<"para", "agenda", "--days", "7", "--project", "alpha", "--json">>

\* the program of call c exited with status zero, having written stdout
ExitedZero(c) ==
    /\ Returned(c) /\ outcome[c] # <<>>
    /\ outcome[c][1].started /\ outcome[c][1].returncode = 0
Unparseable(text) == ~json_loads(text).ok
\* the fallback value: the raw text, the unparsed flag, no error
Fallback(c) ==
    /\ IsDict(Doc(c))
    /\ {"output", "raw"} \subseteq Keys(Doc(c))
    /\ Doc(c).items.output = outcome[c][1].stdout
    /\ Doc(c).items.raw = TRUE
    /\ "error" \notin Keys(Doc(c))

\* C7 as stated: status zero and non-empty stdout that is not JSON give the
\* fallback value with the raw text.
C7_Original ==
    \A c \in Calls :
        (ExitedZero(c) /\ outcome[c][1].stdout # <<>> /\ Unparseable(outcome[c][1].stdout))
        => Fallback(c)

\* C7 amended: status zero and stdout that holds more than white space and is
\* not JSON give the fallback value with the raw text unchanged.
C7_RawFallback ==
    \A c \in Calls :
        (ExitedZero(c) /\ Strip(outcome[c][1].stdout) # <<>>
            /\ Unparseable(outcome[c][1].stdout))
        => Fallback(c)

C7_Witness ==
    \E c \in Calls :
        /\ ExitedZero(c) /\ outcome[c][1].stdout = <<"junk", "ws">>
        /\ Fallback(c)

\* C8: a non-zero exit status gives an ExternalToolError whatever stdout holds:
\* the message carries the captured stderr when there is some, a generic
\* message otherwise, and the result is never a success.
C8_NonZeroExit ==
    \A c \in Calls :
        (pc[c] # "waiting" /\ outcome[c] # <<>> /\ outcome[c][1].started
            /\ outcome[c][1].returncode # 0)
        => /\ ErrorResult(c)
           /\ ~IsSuccessDoc(Doc(c))
           /\ ExternalToolErrorMsg(Message(c))
           /\ Tail(Message(c)) =
                 IF outcome[c][1].stderr # <<>> THEN Strip(outcome[c][1].stderr)
                 ELSE CalledProcessErrorStr(outcome[c][1])

C8_Witness ==
    \E c \in Calls :
        /\ ErrorResult(c) /\ outcome[c] # <<>>
        /\ outcome[c][1].returncode = 1
        /\ outcome[c][1].stdout = <<"obj_path">>
        /\ outcome[c][1].stderr = <<"ws", "boom", "ws">>
        /\ Message(c) = <<"Para command failed: ", "boom">>

InvalidEnum(c) ==
    \E f \in EnumFields(ToolOf(c)) :
        Has(ArgsOf(c), f) /\ ArgsOf(c)[f][1] \notin Enum(ToolOf(c), f)

\* C9: a value outside a field's declared enumeration is rejected with an
\* error result and the external process is not launched with it.
C9_InvalidValueRejected ==
    \A c \in Calls :
        (Handled(c) /\ ToolOf(c) \in RegisteredTools /\ InvalidEnum(c))
        => ErrorResult(c) /\ NoLaunch(c)

\* C10: a tool name that is not registered gives an error result whose
\* message names the tool, whatever the payload, and no process is launched.
C10_UnknownTool ==
    \A c \in Calls :
        (Handled(c) /\ ToolOf(c) \notin RegisteredTools)
        => /\ ErrorResult(c)
           /\ UnknownToolMsg(Message(c), ToolOf(c))
           /\ NoLaunch(c)

C10_Witness ==
    \E c \in Calls :
        /\ Returned(c) /\ ToolOf(c) = "para_rename" /\ Has(ArgsOf(c), "name")
        /\ ErrorResult(c) /\ NoLaunch(c)


\* C11: status zero with empty standard output gives the implicit success
\* result, success = true without an error field, and not a failure.
C11_EmptyOutputSucceeds ==
    \A c \in Calls :
        (ExitedZero(c) /\ outcome[c][1].stdout = <<>>)
        => /\ Len(result[c]) = 1
           /\ IsDict(Doc(c))
           /\ "success" \in Keys(Doc(c))
           /\ Doc(c).items.success = TRUE
           /\ "error" \notin Keys(Doc(c))

C11_Witness ==
    \E c \in Calls :
        /\ ExitedZero(c) /\ outcome[c][1].stdout = <<>>
        /\ ToolOf(c) = "para_create"
        /\ Doc(c) = Dict([success |-> TRUE, returncode |-> 0])


\* the option words the handlers emit, and those followed by a value
FlagWords == {"-C", "--case-sensitive", "--days", "--project", "--area", "--scope"}
ValueFlags == FlagWords \ {"--case-sensitive"}

\* the command word each tool runs
CommandWord(name) ==
    CASE name = "para_list"        -> "list"
      [] name = "para_read"        -> "read"
      [] name = "para_headings"    -> "headings"
      [] name = "para_search"      -> "search"
      [] name = "para_agenda"      -> "agenda"
      [] name = "para_environment" -> "environment"
      [] name = "para_version"     -> "version"
      [] name = "para_ai_overview" -> "ai-overview"
      [] name = "para_path"        -> "path"
      [] name = "para_create"      -> "create"
      [] name = "para_archive"     -> "archive"
      [] name = "para_delete"      -> "delete"
      [] name \in {"para_directory", "para_open", "para_reveal"} -> "directory"

\* the positional arguments of a tool, in its order: type, name; scope,
\* name, query; location, name
Positionals(name, args) ==
    CASE name = "para_list" ->
            IF Get(args, "type", "all") = "all" THEN <<>> ELSE <<args.type[1]>>
      [] name = "para_search" ->
            <<args.scope[1]>>
            \o (IF args.scope[1] \in {"project", "area"} THEN <<args.name[1]>> ELSE <<>>)
            \o <<args.query[1]>>
      [] name = "para_path" ->
            <<args.location[1]>>
            \o (IF args.location[1] \in {"project", "area"} THEN <<args.name[1]>> ELSE <<>>)
      [] name \in {"para_agenda", "para_environment", "para_version", "para_ai_overview"} ->
            <<>>
      [] OTHER -> <<args.type[1], args.name[1]>>

\* s is a sequence of option words, each value-taking one followed by its value
RECURSIVE FlagsOnly(_)
FlagsOnly(s) ==
    \/ s = <<>>
    \/ s[1] = "--case-sensitive" /\ FlagsOnly(Tail(s))
    \/ s[1] \in ValueFlags /\ Len(s) >= 2 /\ FlagsOnly(Tail(Tail(s)))

Launched(c) == argv[c] # <<>>
\* call_tool has just built the request's vector, or returned without one:
\* the program has not exited yet (req and argv do not change afterwards)
Dispatched(c) == Handled(c) /\ proc[c] # "exited"

\* C12: every vector handed to the program is: the command word, the tool's
\* positional arguments in their order, then option flags only, then --json
\* as the last element and nowhere else; create with {type: project,
\* name: alpha} gives [create, project, alpha, --json].
C12_VectorShape ==
    \A c \in Calls :
        (Dispatched(c) /\ Launched(c)) =>
            LET v == Tail(argv[c])
                pos == Positionals(ToolOf(c), ArgsOf(c))
                n == 1 + Len(pos)
            IN  /\ argv[c][1] = PARA_CLI
                /\ Len(v) >= n + 1
                /\ v[1] = CommandWord(ToolOf(c))
                /\ SubSeq(v, 2, n) = pos
                /\ \A i \in 1..n : v[i] \notin FlagWords \cup {"--json"}
                /\ FlagsOnly(SubSeq(v, n + 1, Len(v) - 1))
                /\ v[Len(v)] = "--json"
                /\ \A i \in 1..(Len(v) - 1) : v[i] # "--json"
                /\ (ToolOf(c) = "para_create" /\ ArgsOf(c).type = <<"project">>
                        /\ ArgsOf(c).name = <<"alpha">>)
                   => v = <<"create", "project", "alpha", "--json">>

C12_Witness ==
    \E c \in Calls :
        /\ pc[c] = "waiting" /\ ToolOf(c) = "para_search"
        /\ argv[c] = <<"para", "search", "project", "alpha", "todo",
                       "-C", "5", "--case-sensitive", "--json">>


\* the fields of each tool's inputSchema that declare a "default"
DefaultFields(name) ==
    CASE name = "para_list"   -> {"type"}
      [] name = "para_search" -> {"context", "caseSensitive"}
      [] name = "para_agenda" -> {"days", "scope"}
      [] OTHER                -> {}

\* the declared "default" of field f
Default(f) ==
    CASE f = "type"          -> <<"all">>
      [] f = "context"       -> <<2>>
      [] f = "caseSensitive" -> <<FALSE>>
      [] f = "days"          -> <<7>>
      [] f = "scope"         -> <<"all">>

\* the vector call_tool hands to subprocess.run for a request, <<>> if none
VectorFor(name, args) ==
    LET eff == route(name, args)
    IN  IF eff.k = "run" THEN cmd(eff.cmd_args) ELSE <<>>

\* C13: a payload without a field that has a declared default gives the vector
\* of the same payload with the field set to the default; search with context
\* 2 emits no -C and with caseSensitive false no --case-sensitive.
C13_DefaultsAsIfPresent ==
    \A c \in Calls :
        Dispatched(c) =>
            /\ \A f \in DefaultFields(ToolOf(c)) :
                  ~Has(ArgsOf(c), f)
                  => argv[c] = VectorFor(ToolOf(c), [ArgsOf(c) EXCEPT ![f] = Default(f)])
            /\ (ToolOf(c) = "para_search" /\ Get(ArgsOf(c), "context", 2) = 2)
               => "-C" \notin Range(argv[c])
            /\ (ToolOf(c) = "para_search" /\ Get(ArgsOf(c), "caseSensitive", FALSE) = FALSE)
               => "--case-sensitive" \notin Range(argv[c])

C13_Witness ==
    \E c \in Calls :
        /\ pc[c] = "waiting" /\ ToolOf(c) = "para_agenda"
        /\ ~Has(ArgsOf(c), "days") /\ ~Has(ArgsOf(c), "scope")
        /\ ~Has(ArgsOf(c), "project") /\ ~Has(ArgsOf(c), "area")
        /\ argv[c] = <<"para", "agenda", "--days", "7", "--scope", "all", "--json">>
        /\ argv[c] = VectorFor("para_agenda",
                               [ArgsOf(c) EXCEPT !.days = <<7>>, !.scope = <<"all">>])


\* the run of call c failed: the program could not be started, or it exited
\* with a non-zero status
RunFailed(c) ==
    /\ outcome[c] # <<>>
    /\ ~outcome[c][1].started \/ outcome[c][1].returncode # 0

\* C14: in the handling of one call subprocess.run is called at most once,
\* whatever the tool and the outcome; a failed launch or a failed run is
\* returned as an error result after that single launch.
C14_NoRetry ==
    \A c \in Calls :
        /\ launches[c] <= 1
        /\ Launched(c) <=> launches[c] = 1
        /\ RunFailed(c) => ErrorResult(c) /\ launches[c] = 1

C14_Witness ==
    \E c \in Calls :
        /\ Returned(c) /\ ToolOf(c) = "para_open" /\ proc[c] = "failed" /\ RunFailed(c)
        /\ ErrorResult(c) /\ launches[c] = 1
        /\ Message(c)[1] = "Unexpected error: "

====
